---- MODULE Spec2Model ----
(***************************************************************************)
(* State-machine model of AgentOrchestrator (src/app/orchestrator.py) and  *)
(* of the agent bookkeeping it drives (src/app/agents/base.py).            *)
(*                                                                         *)
(* The program runs on one asyncio event loop: a coroutine runs without    *)
(* interruption until it awaits something that is not ready.  Every action *)
(* below is one such uninterrupted run of one coroutine.                   *)
(***************************************************************************)
EXTENDS Integers, Sequences, FiniteSets, TLC

VARIABLES
    agents,            \* self.agents: agent id -> [agent_type, status, current_task]
    tasks,             \* self.tasks: task id -> Task record
    execution_graphs,  \* self.execution_graphs: task id -> ExecutionGraph
    semaphore,         \* self.semaphore: the free slots (Semaphore._value)
    sched,             \* the _execute_task_graph coroutine of each accepted task
    execs,             \* the _execute_node coroutines: task id -> node name -> state
    submit_result,     \* each execute_task call: its graph and what it gave back
    running_tasks,     \* self.running_tasks: task id -> asyncio task
    shutdowns,         \* history: the shutdown() calls that returned
    observed,          \* history: node failures seen and collaborator invocations
    faults,            \* collaborator calls that raised or timed out so far
    timeouts           \* those of them that timed out

vars == <<agents, tasks, execution_graphs, semaphore, sched, execs,
          submit_result, running_tasks, shutdowns, observed, faults, timeouts>>

----------------------------------------------------------------------------
(* Bounds of the model *)

MaxTasks == 2          \* submissions explored
MaxConcurrent == 2     \* max_concurrent_agents the orchestrator is built with
MaxFaults == 4         \* collaborator calls that raise or time out, in all
MaxTimeouts == 1       \* collaborator calls that time out, in all
MaxShutdowns == 1      \* shutdown() calls explored

(* Program constants *)

MaxRetries == 3

CircularMsg == "Circular dependency detected in execution graph"

NoAgentMsg == "No agent found for type"   \* followed by the type, kept apart

TimeoutMsg == ""       \* str(asyncio.TimeoutError()) is the empty string

ExcMsg == "boom"       \* str(e) of an exception raised by a collaborator

NoValue == "None"      \* Python's None

NoTask == 0            \* None where a task id is expected (ids are 1, 2, ...)

EmptyMap == [x \in {} |-> NoValue]

Range(s) == {s[i] : i \in 1..Len(s)}

----------------------------------------------------------------------------
(* Agents: one instance per capability, registered in this order *)

AgentOrder == <<"agent_df", "agent_cg", "agent_tp">>

AgentIds == Range(AgentOrder)

AgentTypeOf ==
    [a \in AgentIds |->
        IF a = "agent_df" THEN "data_fetcher"
        ELSE IF a = "agent_cg" THEN "chart_generator"
        ELSE "text_processor"]

BaseAgentInit(a) ==
    [agent_type |-> AgentTypeOf[a], status |-> "idle", current_task |-> NoTask]

start_task(ag, task_id) ==
    [ag EXCEPT !.current_task = task_id, !.status = "busy"]

complete_task(ag, task_id) ==
    IF ag.current_task = task_id
    THEN [ag EXCEPT !.current_task = NoTask, !.status = "idle"]
    ELSE ag

\* faulty variant: fail_task forgets update_status
fail_task_keeps_status(ag, task_id) ==
    IF ag.current_task = task_id
    THEN [ag EXCEPT !.current_task = NoTask]
    ELSE ag

fail_task(ag, task_id) ==
    IF ag.current_task = task_id
    THEN [ag EXCEPT !.current_task = NoTask, !.status = "error"]
    ELSE ag

----------------------------------------------------------------------------
(* Raw execution graphs: a dict is a sequence of entries in insertion order *)

Bare(n, ty) ==
    [name |-> n, is_dict |-> FALSE, has_type |-> TRUE, agent_type |-> ty,
     dependencies |-> <<>>]

Obj(n, ty, deps) ==
    [name |-> n, is_dict |-> TRUE, has_type |-> TRUE, agent_type |-> ty,
     dependencies |-> deps]

\* a dict entry with a "parameters" key
ObjWithParameters(n, ty, deps, params) ==
    [name |-> n, is_dict |-> TRUE, has_type |-> TRUE, agent_type |-> ty,
     dependencies |-> deps, parameters |-> params]

\* a dict entry without the "agent_type" key
ObjNoType(n, deps) ==
    [name |-> n, is_dict |-> TRUE, has_type |-> FALSE, agent_type |-> NoValue,
     dependencies |-> deps]

ChainGraph ==
    <<Bare("A", "data_fetcher"), Obj("B", "chart_generator", <<"A">>)>>

SameCapabilityGraph ==
    <<Bare("A", "data_fetcher"), Bare("B", "data_fetcher")>>

CycleGraph ==
    <<Obj("A", "data_fetcher", <<"B">>), Obj("B", "chart_generator", <<"A">>)>>

PartialCycleGraph ==
    <<Bare("A", "data_fetcher"), Obj("B", "chart_generator", <<"C">>),
      Obj("C", "text_processor", <<"B">>)>>

\* B names a capability no agent is registered for
UnknownTypeGraph ==
    <<Bare("A", "data_fetcher"), Bare("B", "non_existent")>>

\* B is a dict entry without agent_type
NoTypeGraph ==
    <<Bare("A", "data_fetcher"), ObjNoType("B", <<"A">>)>>

\* B depends on a name that is no key of the graph
DanglingGraph ==
    <<Bare("A", "data_fetcher"), Obj("B", "chart_generator", <<"Z">>)>>

\* parameters that name an operation of their own
OverrideParameters == [task_type |-> "validate_data"]

\* one node whose parameters carry a task_type
ParameterGraph ==
    <<ObjWithParameters("A", "data_fetcher", <<>>, OverrideParameters)>>

\* the parameters argument execute_task is called with
ParametersOf(raw) ==
    IF raw = ParameterGraph THEN OverrideParameters ELSE EmptyMap

\* three independent nodes: one layer of three executions
WideGraph ==
    <<Bare("A", "data_fetcher"), Bare("B", "chart_generator"),
      Bare("C", "text_processor")>>

\* a node is named "dependencies", and B depends on it
ReservedKeyGraph ==
    <<Bare("dependencies", "data_fetcher"),
      Obj("B", "chart_generator", <<"dependencies">>)>>

RawGraphs ==
    {ChainGraph, SameCapabilityGraph, CycleGraph, PartialCycleGraph,
     UnknownTypeGraph, NoTypeGraph, DanglingGraph, ParameterGraph}

ResultOf(n) ==
    IF n = "A" THEN "resA" ELSE IF n = "B" THEN "resB" ELSE "resC"

----------------------------------------------------------------------------
(* _find_agent_by_type and _parse_execution_graph *)

\* faulty variant: the first agent of the type, whatever its status
FirstAgentAnyStatus(ags, ty, i) ==
    IF \E j \in i..Len(AgentOrder) : ags[AgentOrder[j]].agent_type = ty
    THEN AgentOrder[CHOOSE j \in i..Len(AgentOrder) :
                        ags[AgentOrder[j]].agent_type = ty]
    ELSE NoValue

RECURSIVE FirstAgent(_, _, _)
FirstAgent(ags, ty, i) ==
    IF i > Len(AgentOrder) THEN NoValue
    ELSE IF ags[AgentOrder[i]].agent_type = ty
            /\ ags[AgentOrder[i]].status \in {"idle", "error"}
         THEN AgentOrder[i]
         ELSE FirstAgent(ags, ty, i + 1)

_find_agent_by_type(ags, ty) == FirstAgent(ags, ty, 1)

NodeEntries(raw) == SelectSeq(raw, LAMBDA e : e.name # "dependencies")

EntryType(e) ==
    IF e.is_dict THEN (IF e.has_type THEN e.agent_type ELSE "unknown")
    ELSE e.agent_type

EntryDeps(e) == IF e.is_dict THEN e.dependencies ELSE <<>>

\* line 109 and line 114
EntryParameters(e) ==
    IF e.is_dict /\ "parameters" \in DOMAIN e THEN e.parameters ELSE EmptyMap

\* faulty variant: only the bare-string entries are resolved
UnresolvedBareOnly(ags, raw) ==
    SelectSeq(NodeEntries(raw),
              LAMBDA e : ~e.is_dict
                         /\ _find_agent_by_type(ags, EntryType(e)) = NoValue)

\* faulty variant: an entry is also rejected when one of its dependencies
\* depends on it (a cycle check in the parse loop)
UnresolvedOrCyclic(ags, raw) ==
    SelectSeq(NodeEntries(raw),
              LAMBDA e :
                  \/ _find_agent_by_type(ags, EntryType(e)) = NoValue
                  \/ \E i \in 1..Len(NodeEntries(raw)) :
                        /\ NodeEntries(raw)[i].name \in Range(EntryDeps(e))
                        /\ e.name \in Range(EntryDeps(NodeEntries(raw)[i])))

\* the entries the parse loop reaches whose agent type does not resolve
Unresolved(ags, raw) ==
    SelectSeq(NodeEntries(raw),
              LAMBDA e : _find_agent_by_type(ags, EntryType(e)) = NoValue)

ExecutionNode(ags, e) ==
    [agent_id |-> _find_agent_by_type(ags, EntryType(e)),
     agent_type |-> EntryType(e),
     dependencies |-> EntryDeps(e),
     parameters |-> EntryParameters(e),
     status |-> "pending",
     result |-> NoValue,
     error |-> NoValue,
     started_at |-> FALSE,
     completed_at |-> FALSE]

\* faulty variant: the edges point from the node to its dependency
EdgesReversed(es) ==
    LET pairs == [i \in 1..Len(es) |->
                     [j \in 1..Len(EntryDeps(es[i])) |->
                         <<es[i].name, EntryDeps(es[i])[j]>>]]
        Flat[i \in 0..Len(es)] ==
            IF i = 0 THEN <<>> ELSE Flat[i - 1] \o pairs[i]
    IN  Flat[Len(es)]

RECURSIVE EdgesOf(_)
EdgesOf(es) ==
    IF es = <<>> THEN <<>>
    ELSE [i \in 1..Len(EntryDeps(Head(es))) |->
              <<EntryDeps(Head(es))[i], Head(es).name>>]
         \o EdgesOf(Tail(es))

_parse_execution_graph(ags, raw) ==
    LET es == NodeEntries(raw)
        names == {es[i].name : i \in 1..Len(es)}
        edges == EdgesOf(es)
    IN  [order |-> [i \in 1..Len(es) |-> es[i].name],
         nodes |-> [n \in names |->
                      ExecutionNode(ags,
                          es[CHOOSE i \in 1..Len(es) : es[i].name = n])],
         edges |-> edges,
         entry_points |-> names \ {edges[i][2] : i \in 1..Len(edges)},
         exit_points |-> names \ {edges[i][1] : i \in 1..Len(edges)}]

----------------------------------------------------------------------------
(* Records created by execute_task *)

\* faulty variant: the record is created already RUNNING
TaskAlreadyRunning ==
    [status |-> "running", started_at |-> TRUE, completed_at |-> FALSE,
     results |-> EmptyMap, error_message |-> NoValue, retry_count |-> 0,
     max_retries |-> MaxRetries]

Task ==
    [status |-> "pending", started_at |-> FALSE, completed_at |-> FALSE,
     results |-> EmptyMap, error_message |-> NoValue, retry_count |-> 0,
     max_retries |-> MaxRetries]

SchedInit ==
    [pc |-> "created", completed_nodes |-> {}, node_results |-> EmptyMap,
     execution_tasks |-> <<>>, idx |-> 1]

ExecIdle == [pc |-> "none", result |-> NoValue, error |-> NoValue]

ObservedInit(names) ==
    [failures |-> 0,
     invocations |-> [n \in names |-> 0]]

TaskIds == 1..MaxTasks

NextId == Cardinality(DOMAIN tasks) + 1

Init ==
    /\ agents = [a \in AgentIds |-> BaseAgentInit(a)]
    /\ tasks = EmptyMap
    /\ execution_graphs = EmptyMap
    /\ semaphore = MaxConcurrent
    /\ sched = EmptyMap
    /\ execs = EmptyMap
    /\ submit_result = EmptyMap
    /\ running_tasks = EmptyMap
    /\ shutdowns = 0
    /\ observed = EmptyMap
    /\ faults = 0
    /\ timeouts = 0

----------------------------------------------------------------------------
(* asyncio.Semaphore: acquire proceeds only while a slot is free *)

\* faulty variant: the gate lets everyone in
CanAcquireAlways(sem) == TRUE

CanAcquire(sem) == sem > 0

\* faulty variant: a slot is taken without being counted
AcquireUncounted(sem) == sem

Acquire(sem) == sem - 1

\* faulty variant: the slot is not given back
ReleaseLeak(sem) == sem

Release(sem) == sem + 1

----------------------------------------------------------------------------
(* _execute_task_graph.  st bundles what the coroutine of one task works on: *)
(* [task, graph, sched, execs, obs].                                          *)

Saturate(k) == IF k > MaxRetries + 1 THEN MaxRetries + 2 ELSE k

\* faulty variant: a node is ready whatever its dependencies
DependenciesIgnored(node, completed) == TRUE

DependenciesMet(node, completed) ==
    \A i \in 1..Len(node.dependencies) : node.dependencies[i] \in completed

\* lines 168-175: the ready layer, in the order of the nodes dict
ReadyNodes(graph, completed) ==
    SelectSeq(graph.order,
              LAMBDA n : n \notin completed
                         /\ DependenciesMet(graph.nodes[n], completed))

\* lines 179-181: an empty layer is an error only when nothing completed
\* faulty variant: an empty layer always just ends the loop
EmptyLayerNeverError(completed) == FALSE

EmptyLayerIsError(completed) == Cardinality(completed) = 0

\* lines 216-219
TaskCompleted(st) ==
    [st EXCEPT !.task.status = "completed",
               !.task.completed_at = TRUE,
               !.task.results = st.sched.node_results,
               !.sched.pc = "done"]

\* faulty variant: the except block records the task as CANCELLED
TaskFailedAsCancelled(st, msg) ==
    [st EXCEPT !.task.status = "cancelled",
               !.task.error_message = msg,
               !.task.completed_at = TRUE,
               !.sched.pc = "done"]

\* lines 223-227
TaskFailed(st, msg) ==
    [st EXCEPT !.task.status = "failed",
               !.task.error_message = msg,
               !.task.completed_at = TRUE,
               !.sched.pc = "done"]

\* faulty variant: only the first ready node gets an asyncio task
DispatchFirstOnly(st, ready) ==
    [st EXCEPT !.execs = [n \in DOMAIN @ |->
                             IF n = Head(ready)
                             THEN [pc |-> "waiting", result |-> NoValue,
                                   error |-> NoValue]
                             ELSE @[n]],
               !.sched.execution_tasks = <<Head(ready)>>,
               !.sched.idx = 1,
               !.sched.pc = "await"]

\* lines 185-189: one asyncio task per ready node, none of them started yet
Dispatch(st, ready) ==
    [st EXCEPT !.execs = [n \in DOMAIN @ |->
                             IF n \in Range(ready)
                             THEN [pc |-> "waiting", result |-> NoValue,
                                   error |-> NoValue]
                             ELSE @[n]],
               !.sched.execution_tasks = ready,
               !.sched.idx = 1,
               !.sched.pc = "await"]

\* lines 166-189: one pass of the while loop up to its first await
WhileLoop(st) ==
    IF Cardinality(st.sched.completed_nodes) < Cardinality(DOMAIN st.graph.nodes)
    THEN LET ready == ReadyNodes(st.graph, st.sched.completed_nodes)
         IN  IF ready = <<>>
             THEN IF EmptyLayerIsError(st.sched.completed_nodes)
                  THEN TaskFailed(st, CircularMsg)
                  ELSE TaskCompleted(st)
             ELSE Dispatch(st, ready)
    ELSE TaskCompleted(st)

\* lines 194-201: the awaited node execution returned a result
NodeSucceeded(st, n) ==
    [st EXCEPT !.sched.node_results =
                   [m \in DOMAIN @ \cup {n} |->
                       IF m = n THEN st.execs[n].result ELSE @[m]],
               !.sched.completed_nodes = @ \cup {n},
               !.graph.nodes[n].status = "completed",
               !.graph.nodes[n].result = st.execs[n].result,
               !.graph.nodes[n].completed_at = TRUE,
               !.execs[n] = ExecIdle,
               !.sched.idx = @ + 1]

\* faulty variant: a failure is always counted as a retry, never raised
CanRetryAlways(task) == TRUE

\* faulty variant: the comparison lets one failure too many through
CanRetryInclusive(task) == task.retry_count <= task.max_retries

\* line 209: may this failure still be counted as a retry
CanRetry(task) == task.retry_count < task.max_retries

\* faulty variant: the retry is not counted
CountRetryNone(c) == c

\* line 210
CountRetry(c) == c + 1

\* lines 203-206: the awaited node execution raised
NodeFailed(st, n) ==
    [st EXCEPT !.graph.nodes[n].status = "failed",
               !.graph.nodes[n].error = st.execs[n].error,
               !.obs.failures = Saturate(@ + 1),
               !.execs[n] = ExecIdle]

\* lines 192-214: the for loop over the layer's asyncio tasks; awaiting a
\* finished task does not suspend, so the loop runs on until it meets one
\* that is not finished, the layer ends (next pass) or the task fails
\* faulty variant: the next pass starts when the first execution of the
\* layer has been awaited
AwaitFirstOnly(st) ==
    LET n == st.sched.execution_tasks[st.sched.idx]
        e == st.execs[n]
    IN  IF e.pc = "done_ok"
        THEN WhileLoop(NodeSucceeded(st, n))
        ELSE IF e.pc = "done_err"
        THEN IF CanRetry(st.task)
             THEN WhileLoop([NodeFailed(st, n) EXCEPT
                                !.task.retry_count = CountRetry(@),
                                !.sched.idx = @ + 1])
             ELSE TaskFailed(NodeFailed(st, n), e.error)
        ELSE st

RECURSIVE AwaitLoop(_)
AwaitLoop(st) ==
    IF st.sched.idx > Len(st.sched.execution_tasks)
    THEN WhileLoop(st)
    ELSE LET n == st.sched.execution_tasks[st.sched.idx]
             e == st.execs[n]
         IN  IF e.pc = "done_ok"
             THEN AwaitLoop(NodeSucceeded(st, n))
             ELSE IF e.pc = "done_err"
             THEN IF CanRetry(st.task)
                  THEN AwaitLoop(
                         [NodeFailed(st, n) EXCEPT
                             !.task.retry_count = CountRetry(@),
                             !.sched.idx = @ + 1])
                  ELSE TaskFailed(NodeFailed(st, n), e.error)
             ELSE st

Bundle(t) ==
    [task |-> tasks[t], graph |-> execution_graphs[t], sched |-> sched[t],
     execs |-> execs[t], obs |-> observed[t]]

Commit(t, st) ==
    /\ tasks' = [tasks EXCEPT ![t] = st.task]
    /\ execution_graphs' = [execution_graphs EXCEPT ![t] = st.graph]
    /\ sched' = [sched EXCEPT ![t] = st.sched]
    /\ execs' = [execs EXCEPT ![t] = st.execs]
    /\ observed' = [observed EXCEPT ![t] = st.obs]

----------------------------------------------------------------------------
(* Actions *)

\* execute_task: the record is stored before the graph is parsed; a parse
\* error leaves it there and starts nothing
execute_task(raw) ==
    /\ Cardinality(DOMAIN tasks) < MaxTasks
    /\ LET id == NextId
           bad == Unresolved(agents, raw)
           graph == _parse_execution_graph(agents, raw)
       IN  /\ tasks' = tasks @@ (id :> Task)
           /\ IF bad # <<>>
              THEN /\ submit_result' = submit_result @@
                         (id :> [execution_graph |-> raw,
                                 parameters |-> ParametersOf(raw),
                                 ok |-> FALSE,
                                 error |-> NoAgentMsg,
                                 agent_type |-> EntryType(Head(bad))])
                   /\ UNCHANGED <<execution_graphs, sched, execs, observed>>
              ELSE /\ submit_result' = submit_result @@
                         (id :> [execution_graph |-> raw,
                                 parameters |-> ParametersOf(raw),
                                 ok |-> TRUE,
                                 error |-> NoValue, agent_type |-> NoValue])
                   /\ execution_graphs' = execution_graphs @@ (id :> graph)
                   /\ sched' = sched @@ (id :> SchedInit)
                   /\ execs' = execs @@
                         (id :> [n \in DOMAIN graph.nodes |-> ExecIdle])
                   /\ observed' = observed @@
                         (id :> ObservedInit(DOMAIN graph.nodes))
    /\ UNCHANGED <<agents, semaphore, running_tasks, shutdowns, faults,
                   timeouts>>

\* _execute_task_graph from its start to its first await (or its end)
SchedStart(t) ==
    /\ t \in DOMAIN sched
    /\ sched[t].pc = "created"
    /\ Commit(t, WhileLoop([Bundle(t) EXCEPT !.task.status = "running",
                                             !.task.started_at = TRUE]))
    /\ UNCHANGED <<agents, semaphore, submit_result, running_tasks,
                   shutdowns, faults, timeouts>>

AwaitedExec(t) == execs[t][sched[t].execution_tasks[sched[t].idx]]

\* _execute_task_graph resumed because the node execution it awaits is done
SchedResume(t) ==
    /\ t \in DOMAIN sched
    /\ sched[t].pc = "await"
    /\ AwaitedExec(t).pc \in {"done_ok", "done_err"}
    /\ Commit(t, AwaitLoop(Bundle(t)))
    /\ UNCHANGED <<agents, semaphore, submit_result, running_tasks,
                   shutdowns, faults, timeouts>>

\* faulty variant: a task_type among the node's parameters wins
TaskTypeOverridable(node) ==
    IF "task_type" \in DOMAIN node.parameters THEN node.parameters.task_type
    ELSE IF node.agent_type = "data_fetcher" THEN "fetch_data"
    ELSE IF node.agent_type = "chart_generator" THEN "generate_chart"
    ELSE "analyze_text"

\* line 242
TaskType(node) ==
    IF node.agent_type = "data_fetcher" THEN "fetch_data"
    ELSE IF node.agent_type = "chart_generator" THEN "generate_chart"
    ELSE "analyze_text"

\* faulty variant: the collaborator is given an empty dependencies dict
task_data_without_results(t, n) ==
    [task_type |-> TaskType(execution_graphs[t].nodes[n]),
     parameters |-> execution_graphs[t].nodes[n].parameters,
     dependencies |-> EmptyMap]

\* lines 241-245: what process_task is called with.  "dependencies" is the
\* scheduler's node_results dict itself, not a copy: the collaborator reads
\* whatever the dict holds at the time it looks
task_data(t, n) ==
    [task_type |-> TaskType(execution_graphs[t].nodes[n]),
     parameters |-> execution_graphs[t].nodes[n].parameters,
     dependencies |-> sched[t].node_results]

\* _execute_node from the acquired gate to the await of process_task
NodeStart(t, n) ==
    /\ t \in DOMAIN execs
    /\ n \in DOMAIN execs[t]
    /\ execs[t][n].pc = "waiting"
    /\ CanAcquire(semaphore)
    /\ semaphore' = Acquire(semaphore)
    /\ LET a == execution_graphs[t].nodes[n].agent_id
       IN  agents' = [agents EXCEPT ![a] = start_task(@, t)]
    /\ execution_graphs' = [execution_graphs EXCEPT
                               ![t].nodes[n].status = "running",
                               ![t].nodes[n].started_at = TRUE]
    /\ execs' = [execs EXCEPT ![t][n].pc = "running"]
    /\ observed' = [observed EXCEPT ![t].invocations[n] = Saturate(@ + 1)]
    /\ UNCHANGED <<tasks, sched, submit_result, running_tasks, shutdowns,
                   faults, timeouts>>

\* the three ways out of _execute_node; each leaves the async with block
NodeExit(t, n, ag, pc, result, error) ==
    /\ t \in DOMAIN execs
    /\ n \in DOMAIN execs[t]
    /\ execs[t][n].pc = "running"
    /\ agents' = [agents EXCEPT ![execution_graphs[t].nodes[n].agent_id] = ag]
    /\ execs' = [execs EXCEPT ![t][n] =
                     [pc |-> pc, result |-> result, error |-> error]]
    /\ semaphore' = Release(semaphore)
    /\ UNCHANGED <<tasks, execution_graphs, sched, submit_result,
                   running_tasks, shutdowns, observed>>

AgentOf(t, n) == agents[execution_graphs[t].nodes[n].agent_id]

\* process_task returned: lines 256-259
NodeReturn(t, n) ==
    /\ NodeExit(t, n, complete_task(AgentOf(t, n), t), "done_ok", ResultOf(n),
                NoValue)
    /\ UNCHANGED <<faults, timeouts>>

\* process_task raised: lines 265-268
NodeRaise(t, n) ==
    /\ faults < MaxFaults
    /\ NodeExit(t, n, fail_task(AgentOf(t, n), t), "done_err", NoValue, ExcMsg)
    /\ faults' = faults + 1
    /\ UNCHANGED timeouts

\* wait_for gave up on process_task: lines 261-264
NodeTimeout(t, n) ==
    /\ faults < MaxFaults
    /\ timeouts < MaxTimeouts
    /\ NodeExit(t, n, fail_task(AgentOf(t, n), t), "done_err", NoValue,
                TimeoutMsg)
    /\ faults' = faults + 1
    /\ timeouts' = timeouts + 1

\* Task.cancel() of asyncio: a coroutine that has not ended is ended at the
\* await it is suspended on
cancel(s) == IF s.pc = "done" THEN s ELSE [s EXCEPT !.pc = "cancelled"]

\* shutdown: cancels and awaits what running_tasks holds, then returns
shutdown ==
    /\ shutdowns < MaxShutdowns
    /\ sched' = [t \in DOMAIN sched |->
                    IF t \in DOMAIN running_tasks THEN cancel(sched[t])
                    ELSE sched[t]]
    /\ shutdowns' = shutdowns + 1
    /\ UNCHANGED <<agents, tasks, execution_graphs, semaphore, execs,
                   submit_result, running_tasks, observed, faults, timeouts>>

\* get_task_status: a query, it changes nothing.  Its value is a dict, a
\* function from keys to values; None is the function with no key.
\* faulty variant: the results are returned for every ended task
HasResultsWhenEnded(task) == task.status \in {"completed", "failed"}

\* line 307
HasResults(task) == task.status = "completed"

\* lines 292-295
CountNodes(graph, status) ==
    Cardinality({n \in DOMAIN graph.nodes : graph.nodes[n].status = status})

get_task_status(task_id) ==
    IF task_id \notin DOMAIN tasks THEN EmptyMap
    ELSE LET task == tasks[task_id]
             status_info ==
                 [task_id |-> task_id,
                  status |-> task.status,
                  started_at |-> task.started_at,
                  completed_at |-> task.completed_at,
                  error_message |-> task.error_message,
                  retry_count |-> task.retry_count,
                  max_retries |-> task.max_retries]
             graph_info ==
                 IF task_id \in DOMAIN execution_graphs
                 THEN LET g == execution_graphs[task_id]
                      IN  "execution_graph" :>
                             [total_nodes |-> Cardinality(DOMAIN g.nodes),
                              completed_nodes |-> CountNodes(g, "completed"),
                              failed_nodes |-> CountNodes(g, "failed"),
                              running_nodes |-> CountNodes(g, "running"),
                              node_statuses |->
                                 [n \in DOMAIN g.nodes |->
                                     [status |-> g.nodes[n].status,
                                      started_at |-> g.nodes[n].started_at,
                                      completed_at |-> g.nodes[n].completed_at,
                                      error |-> g.nodes[n].error]]]
                 ELSE EmptyMap
             results ==
                 IF HasResults(task) THEN "results" :> task.results
                 ELSE EmptyMap
         IN  status_info @@ graph_info @@ results

NodeNames == {"A", "B", "C"}

Next ==
    \/ \E raw \in RawGraphs : execute_task(raw)
    \/ \E t \in TaskIds : SchedStart(t)
    \/ \E t \in TaskIds : SchedResume(t)
    \/ \E t \in TaskIds, n \in NodeNames : NodeStart(t, n)
    \/ \E t \in TaskIds, n \in NodeNames : NodeReturn(t, n)
    \/ \E t \in TaskIds, n \in NodeNames : NodeRaise(t, n)
    \/ \E t \in TaskIds, n \in NodeNames : NodeTimeout(t, n)
    \/ shutdown

Spec == Init /\ [][Next]_vars

\* The specification of the liveness property.  The program's steps are
\* those of Spec; of the environment's choices it keeps the runs in which
\* the failing collaborator calls all belong to one task, the graphs of
\* FairGraphs, and no call of shutdown (which changes nothing a task reads).
OnlyTaskWithFaults(t) ==
    \A u \in DOMAIN sched \ {t} :
        /\ observed[u].failures = 0
        /\ \A n \in DOMAIN execs[u] : execs[u][n].pc # "done_err"

FairGraphs ==
    {ChainGraph, SameCapabilityGraph, CycleGraph, PartialCycleGraph}

FairNext ==
    \/ \E raw \in FairGraphs : execute_task(raw)
    \/ \E t \in TaskIds : SchedStart(t)
    \/ \E t \in TaskIds : SchedResume(t)
    \/ \E t \in TaskIds, n \in NodeNames : NodeStart(t, n)
    \/ \E t \in TaskIds, n \in NodeNames : NodeReturn(t, n)
    \/ \E t \in TaskIds, n \in NodeNames :
          OnlyTaskWithFaults(t) /\ NodeRaise(t, n)
    \/ \E t \in TaskIds, n \in NodeNames :
          OnlyTaskWithFaults(t) /\ NodeTimeout(t, n)

\* what the event loop and the collaborators do without being asked: a
\* coroutine that can run is run, a collaborator call ends
Progress ==
    \E t \in TaskIds :
        \/ SchedStart(t)
        \/ SchedResume(t)
        \/ \E n \in NodeNames : NodeStart(t, n) \/ NodeReturn(t, n)

FairSpec == Init /\ [][FairNext]_vars /\ WF_vars(Progress)

\* The specification of the layers of three: the program's steps are those
\* of Spec, the submitted graphs are those of WideGraphs and shutdown is not
\* called.
WideGraphs == {WideGraph}

WideNext ==
    \/ \E raw \in WideGraphs : execute_task(raw)
    \/ \E t \in TaskIds : SchedStart(t)
    \/ \E t \in TaskIds : SchedResume(t)
    \/ \E t \in TaskIds, n \in NodeNames : NodeStart(t, n)
    \/ \E t \in TaskIds, n \in NodeNames : NodeReturn(t, n)
    \/ \E t \in TaskIds, n \in NodeNames : NodeRaise(t, n)
    \/ \E t \in TaskIds, n \in NodeNames : NodeTimeout(t, n)

WideSpec == Init /\ [][WideNext]_vars

\* The specification of the graphs with a key named "dependencies": the
\* program's steps are those of Spec, the submitted graphs are those of
\* ReservedKeyGraphs and shutdown is not called.
ReservedKeyGraphs == {ReservedKeyGraph, ChainGraph}

ReservedKeyNext ==
    \/ \E raw \in ReservedKeyGraphs : execute_task(raw)
    \/ \E t \in TaskIds : SchedStart(t)
    \/ \E t \in TaskIds : SchedResume(t)
    \/ \E t \in TaskIds, n \in NodeNames : NodeStart(t, n)
    \/ \E t \in TaskIds, n \in NodeNames : NodeReturn(t, n)
    \/ \E t \in TaskIds, n \in NodeNames : NodeRaise(t, n)
    \/ \E t \in TaskIds, n \in NodeNames : NodeTimeout(t, n)

ReservedKeySpec == Init /\ [][ReservedKeyNext]_vars

TypeOK ==
    /\ semaphore \in 0..MaxConcurrent
    /\ faults \in 0..MaxFaults
    /\ shutdowns \in 0..MaxShutdowns
    /\ DOMAIN running_tasks = {}
    /\ DOMAIN tasks \subseteq TaskIds
    /\ DOMAIN sched \subseteq DOMAIN tasks
    /\ \A t \in DOMAIN tasks :
          tasks[t].status \in {"pending", "running", "completed", "failed"}

----------------------------------------------------------------------------
(* Vocabulary of the properties *)

Terminal == {"completed", "failed"}

Accepted == DOMAIN sched

NodesOf(t) == execution_graphs[t].nodes

\* node executions that hold a gate slot: inside `async with self.semaphore`
InFlight ==
    {tn \in Accepted \X NodeNames :
        tn[2] \in DOMAIN execs[tn[1]] /\ execs[tn[1]][tn[2]].pc = "running"}

InFlightOn(a) == {tn \in InFlight : NodesOf(tn[1])[tn[2]].agent_id = a}

Waiting ==
    {tn \in Accepted \X NodeNames :
        tn[2] \in DOMAIN execs[tn[1]] /\ execs[tn[1]][tn[2]].pc = "waiting"}

DepsIn(g, S) ==
    {d \in DOMAIN g.nodes :
        \E n \in S : d \in Range(g.nodes[n].dependencies)}

RECURSIVE Ancestors(_, _, _)
Ancestors(g, S, k) ==
    IF k = 0 THEN S ELSE Ancestors(g, S \cup DepsIn(g, S), k - 1)

\* some node depends, directly or not, on itself
Cyclic(g) ==
    \E n \in DOMAIN g.nodes :
        n \in Ancestors(g, DepsIn(g, {n}), Cardinality(DOMAIN g.nodes))

\* no node of the graph is ready when nothing has completed
NothingReady(g) == DOMAIN g.nodes # {} /\ ReadyNodes(g, {}) = <<>>

RECURSIVE SumOver(_, _)
SumOver(f, S) ==
    IF S = {} THEN 0
    ELSE LET x == CHOOSE y \in S : TRUE
         IN  f[x] + SumOver(f, S \ {x})

\* executions of nodes that had been executed before, in task t
Reruns(t) ==
    SumOver([n \in DOMAIN NodesOf(t) |->
                IF observed[t].invocations[n] > 1
                THEN observed[t].invocations[n] - 1 ELSE 0],
            DOMAIN NodesOf(t))

\* the types a graph entry can name in the model
EntryTypes == {"data_fetcher", "chart_generator", "text_processor",
               "non_existent", "unknown"}

\* the agents registered for a capability
AgentsOfType(ty) == {a \in AgentIds : agents[a].agent_type = ty}

\* the capabilities named by the entries of a raw graph
TypesNamed(raw) ==
    {EntryType(NodeEntries(raw)[i]) : i \in 1..Len(NodeEntries(raw))}

\* the dependency names of a raw graph that are no key of it
DanglingDeps(raw) ==
    LET es == NodeEntries(raw)
    IN  {d \in UNION {Range(EntryDeps(es[i])) : i \in 1..Len(es)} :
            \A i \in 1..Len(es) : es[i].name # d}

\* an error text that tells a timeout: not empty, not None, and not the
\* text of the collaborator's exception
IdentifiesTimeout(err) == err \notin {NoValue, "", ExcMsg}

\* the node executions in the collaborator: process_task was called
Invoked ==
    {tn \in Accepted \X NodeNames :
        tn[2] \in DOMAIN execs[tn[1]] /\ execs[tn[1]][tn[2]].pc = "running"}

\* the nodes of task t that the step dispatches: an asyncio task is created
\* for their execution
Dispatched(t) ==
    {n \in DOMAIN NodesOf(t) :
        execs'[t][n].pc = "waiting" /\ execs[t][n].pc # "waiting"}

\* the step is the execute_task call that creates task id
Submits(id) == id \notin DOMAIN tasks /\ id \in DOMAIN tasks'

----------------------------------------------------------------------------
(* C1: at most max_concurrent_agents node executions hold the gate at any  *)
(* time, counted over all tasks of the orchestrator.                       *)
C1_GateBound == Cardinality(InFlight) <= MaxConcurrent

\* the gate is full with executions of two tasks while another one waits
C1_Witness ==
    /\ Cardinality(InFlight) = MaxConcurrent
    /\ \E x, y \in InFlight : x[1] # y[1]
    /\ Waiting # {}

(* C2: a node is RUNNING or its collaborator is invoked only when every    *)
(* name of its dependency list is a node recorded COMPLETED in that task.  *)
C2_DependenciesFirst ==
    \A t \in Accepted : \A n \in DOMAIN NodesOf(t) :
        (execs[t][n].pc = "running" \/ NodesOf(t)[n].status = "running")
        => \A d \in Range(NodesOf(t)[n].dependencies) :
              /\ d \in DOMAIN NodesOf(t)
              /\ NodesOf(t)[d].status = "completed"

\* B of the chain graph runs, after A completed
C2_Witness ==
    \E t \in Accepted :
        /\ DOMAIN NodesOf(t) = {"A", "B"}
        /\ NodesOf(t)["B"].dependencies = <<"A">>
        /\ execs[t]["B"].pc = "running"
        /\ NodesOf(t)["A"].status = "completed"

(* C3: every task execute_task returned an id for eventually reaches       *)
(* COMPLETED or FAILED, when the event loop runs what can run and every    *)
(* collaborator call ends (FairSpec): from some point on, every task that  *)
(* was accepted is COMPLETED or FAILED.  (Submissions are finitely many,   *)
(* so this is the same as each accepted task ending.)                      *)
C3_Terminates ==
    <>[](\A t \in DOMAIN sched : tasks[t].status \in Terminal)

\* two tasks ended, one of them after four node failures, one after a cycle
C3_Witness ==
    \E t, u \in Accepted :
        /\ t # u
        /\ tasks[t].status = "failed" /\ observed[t].failures = MaxRetries + 1
        /\ tasks[u].status \in Terminal

(* C4: a task whose graph has no ready node at the start (a cycle through  *)
(* all nodes) ends FAILED with the circular-dependency message in the step *)
(* that starts it, and none of its nodes is ever dispatched.               *)
C4_FullCycleFails ==
    \A t \in Accepted :
        NothingReady(execution_graphs[t]) =>
            /\ \/ sched[t].pc = "created" /\ tasks[t].status = "pending"
               \/ /\ sched[t].pc = "done"
                  /\ tasks[t].status = "failed"
                  /\ tasks[t].error_message = CircularMsg
            /\ \A n \in DOMAIN NodesOf(t) :
                  /\ NodesOf(t)[n].status = "pending"
                  /\ execs[t][n].pc = "none"
                  /\ observed[t].invocations[n] = 0

C4_Witness ==
    \E t \in Accepted :
        /\ NothingReady(execution_graphs[t])
        /\ Cyclic(execution_graphs[t])
        /\ tasks[t].status = "failed"
        /\ tasks[t].error_message = CircularMsg

(* C5: a task whose graph contains a dependency cycle never reaches        *)
(* COMPLETED.  (The code breaks out of the loop and completes the task     *)
(* when the nodes outside the cycle have completed.)                       *)
C5_CycleNeverCompletes ==
    \A t \in Accepted :
        Cyclic(execution_graphs[t]) => tasks[t].status # "completed"

FatalNode(t) == sched[t].execution_tasks[sched[t].idx]

C8_SlotsConserved ==
    semaphore + Cardinality(InFlight) = MaxConcurrent

\* after a timeout in one task, an execution of another task holds a slot
C8_Witness ==
    \E t, u \in Accepted :
        /\ t # u
        /\ \E n \in DOMAIN NodesOf(t) :
              NodesOf(t)[n].status = "failed" /\ NodesOf(t)[n].error = TimeoutMsg
        /\ faults >= 2
        /\ \E m \in DOMAIN NodesOf(u) :
              execs[u][m].pc = "running" /\ observed[u].invocations[m] = 1
        /\ \E m \in DOMAIN NodesOf(t) : NodesOf(t)[m].status = "completed"

(* C9: an agent on which no node execution is in flight is IDLE or ERROR,  *)
(* never BUSY.                                                             *)
C9_BusyReleased ==
    \A a \in AgentIds :
        InFlightOn(a) = {} => agents[a].status \in {"idle", "error"}

\* executions of two tasks overlapped on one agent, one failed, none is left
C9_Witness ==
    \E a \in AgentIds : \E t, u \in Accepted :
        /\ t # u
        /\ InFlightOn(a) = {}
        /\ agents[a].status = "error"
        /\ \E n \in DOMAIN NodesOf(t) :
              NodesOf(t)[n].agent_id = a /\ observed[t].invocations[n] > 0
        /\ \E m \in DOMAIN NodesOf(u) :
              NodesOf(u)[m].agent_id = a /\ observed[u].invocations[m] > 0

(* C10: at most one node execution is in flight on an agent at any time    *)
(* (the second node of the same capability in a layer does not run).       *)
C10_OneJobPerAgent ==
    \A a \in AgentIds : Cardinality(InFlightOn(a)) <= 1

(* C11: _find_agent_by_type returns an agent of the capability exactly     *)
(* when one of them is IDLE or ERROR, and the one it returns is such an    *)
(* agent; an execute_task call whose graph names a capability whose        *)
(* agents are all BUSY is rejected with the no-agent error, whatever the   *)
(* free slots of the gate, and a call whose capabilities all have an IDLE  *)
(* or ERROR agent is accepted.                                             *)
C11_ResolutionNeedsIdleOrError ==
    [][/\ \A ty \in EntryTypes :
             LET a == _find_agent_by_type(agents, ty)
             IN  /\ (a # NoValue) <=>
                        \E b \in AgentsOfType(ty) :
                            agents[b].status \in {"idle", "error"}
                 /\ a # NoValue =>
                        /\ a \in AgentsOfType(ty)
                        /\ agents[a].status \in {"idle", "error"}
       /\ \A id \in TaskIds :
             Submits(id) =>
                LET r == submit_result'[id]
                    busy == {ty \in TypesNamed(r.execution_graph) :
                                /\ AgentsOfType(ty) # {}
                                /\ \A b \in AgentsOfType(ty) :
                                       agents[b].status = "busy"}
                    none == {ty \in TypesNamed(r.execution_graph) :
                                AgentsOfType(ty) = {}}
                IN  /\ busy # {} => /\ ~r.ok
                                    /\ r.error = NoAgentMsg
                                    /\ id \notin DOMAIN sched'
                    /\ (busy = {} /\ none = {}) => r.ok
                    /\ (~r.ok /\ none = {}) => r.agent_type \in busy
      ]_vars

\* a submission was just rejected for the data fetcher, which is BUSY for
\* another task, while the gate has a free slot
C11_Witness ==
    \E id \in DOMAIN submit_result :
        /\ ~submit_result[id].ok
        /\ submit_result[id].agent_type = "data_fetcher"
        /\ submit_result[id].execution_graph = ChainGraph
        /\ agents["agent_df"].status = "busy"
        /\ semaphore > 0
        /\ tasks[id].status = "pending"

(* C12: an execute_task call whose graph names a capability no agent is   *)
(* registered for (a dict entry without agent_type names "unknown") is     *)
(* rejected with the no-agent error: it returns no id, no graph and no     *)
(* scheduler exist for it, and none of its nodes is ever executed.         *)
C12_UnregisteredCapabilityRejected ==
    \A id \in DOMAIN submit_result :
        LET r == submit_result[id]
        IN  (\E ty \in TypesNamed(r.execution_graph) : AgentsOfType(ty) = {})
            => /\ ~r.ok
               /\ r.error = NoAgentMsg
               /\ r.agent_type \in TypesNamed(r.execution_graph)
               /\ id \notin DOMAIN execution_graphs
               /\ id \notin DOMAIN sched
               /\ id \notin DOMAIN execs
               /\ \A a \in AgentIds : agents[a].current_task # id

\* both kinds of entry were rejected, with every agent IDLE
C12_Witness ==
    \E id, jd \in DOMAIN submit_result :
        /\ submit_result[id].execution_graph = UnknownTypeGraph
        /\ submit_result[id].agent_type = "non_existent"
        /\ submit_result[jd].execution_graph = NoTypeGraph
        /\ submit_result[jd].agent_type = "unknown"
        /\ ~submit_result[id].ok /\ ~submit_result[jd].ok
        /\ \A a \in AgentIds : agents[a].status = "idle"

(* C13: an execute_task call whose graph lists a dependency name that is  *)
(* no key of the graph is rejected at compile time and no task is started  *)
(* for it.  (The code compiles such a graph and starts the task.)          *)
C13_DanglingDependencyRejected ==
    \A id \in DOMAIN submit_result :
        DanglingDeps(submit_result[id].execution_graph) # {}
        => /\ ~submit_result[id].ok
           /\ id \notin DOMAIN sched

(* C14: compiling a graph whose dependencies form a cycle raises, so no    *)
(* compiled graph is cyclic.  (The code has no such check: the cyclic      *)
(* graph is compiled and stored.)                                          *)
C14_CyclicGraphRejectedAtCompile ==
    \A id \in DOMAIN submit_result :
        submit_result[id].ok => ~Cyclic(execution_graphs[id])

(* C15: in every compiled graph entry_points is the set of the nodes whose *)
(* dependency list is empty and exit_points is the set of the nodes that   *)
(* no node of the graph lists as a dependency.                             *)
C15_EntryAndExitPoints ==
    \A t \in DOMAIN execution_graphs :
        LET g == execution_graphs[t]
        IN  /\ g.entry_points =
                  {n \in DOMAIN g.nodes : g.nodes[n].dependencies = <<>>}
            /\ g.exit_points =
                  {n \in DOMAIN g.nodes :
                      \A m \in DOMAIN g.nodes :
                          n \notin Range(g.nodes[m].dependencies)}

\* a chain (entry A, exit B) and a graph whose dependencies leave no entry
C15_Witness ==
    \E t, u \in DOMAIN execution_graphs :
        /\ execution_graphs[t].entry_points = {"A"}
        /\ execution_graphs[t].exit_points = {"B"}
        /\ execution_graphs[u].entry_points = {}
        /\ execution_graphs[u].exit_points = {}
        /\ DOMAIN execution_graphs[u].nodes # {}

(* C16: the step in which execute_task returns an id leaves the task       *)
(* stored PENDING, not started, with every node PENDING and no node        *)
(* execution created; the task leaves PENDING, and any of its nodes        *)
(* starts, only in a later step, of the scheduler or of a node execution.  *)
C16_SubmitReturnsBeforeAnyNode ==
    [][\A id \in TaskIds :
          /\ Submits(id) =>
                /\ tasks'[id].status = "pending"
                /\ ~tasks'[id].started_at
                /\ submit_result'[id].ok =>
                      /\ sched'[id].pc = "created"
                      /\ \A n \in DOMAIN NodesOf(id)' :
                            /\ NodesOf(id)'[n].status = "pending"
                            /\ ~NodesOf(id)'[n].started_at
                            /\ execs'[id][n].pc = "none"
                            /\ observed'[id].invocations[n] = 0
          /\ (id \in DOMAIN tasks' /\ tasks'[id].status # "pending") =>
                /\ id \in DOMAIN sched
                /\ tasks[id].status = "pending" => sched[id].pc = "created"
          /\ id \in DOMAIN sched' =>
                \A n \in DOMAIN NodesOf(id)' :
                    execs'[id][n].pc # "none" =>
                        id \in DOMAIN sched /\ tasks'[id].status # "pending"
      ]_vars

\* a task was just accepted and is PENDING, nothing of it started, while a
\* node of an earlier task is in flight
C16_Witness ==
    \E id, u \in Accepted :
        /\ id # u
        /\ submit_result[id].ok
        /\ tasks[id].status = "pending"
        /\ sched[id].pc = "created"
        /\ \A n \in DOMAIN NodesOf(id) : execs[id][n].pc = "none"
        /\ \E tn \in InFlight : tn[1] = u

(* C17: a task's status changes only from PENDING to RUNNING and from     *)
(* RUNNING to COMPLETED or FAILED (a scheduler step that starts the task   *)
(* and ends it at once passes through RUNNING: it sets started_at);        *)
(* COMPLETED and FAILED are never left; and no task and no node is         *)
(* CANCELLED, before or after shutdown().                                  *)
C17_StatusProgression ==
    [][\A t \in DOMAIN tasks' :
          /\ tasks'[t].status # "cancelled"
          /\ t \in DOMAIN execution_graphs' =>
                \A n \in DOMAIN NodesOf(t)' :
                    NodesOf(t)'[n].status # "cancelled"
          /\ t \notin DOMAIN tasks => tasks'[t].status = "pending"
          /\ t \in DOMAIN tasks =>
                LET a == tasks[t].status
                    b == tasks'[t].status
                IN  \/ a = b
                    \/ a = "pending" /\ b = "running"
                    \/ a = "running" /\ b \in Terminal
                    \/ /\ a = "pending" /\ b \in Terminal
                       /\ ~tasks[t].started_at /\ tasks'[t].started_at
      ]_vars

\* shutdown() has returned; one task is COMPLETED, another one is RUNNING
\* with a node in flight
C17_Witness ==
    /\ shutdowns = 1
    /\ \E t, u \in Accepted :
          /\ tasks[t].status = "completed"
          /\ tasks[u].status = "running"
          /\ \E tn \in InFlight : tn[1] = u

(* C18: once a task is COMPLETED or FAILED, its record and the records of *)
(* its nodes (status, result, error, started_at, completed_at) do not      *)
(* change again.  (In the code a node execution of the failed layer that   *)
(* was still waiting for the gate starts later and marks its node          *)
(* RUNNING.)                                                               *)
C18_FrozenAfterTerminal ==
    [][\A t \in DOMAIN tasks :
          tasks[t].status \in Terminal =>
              /\ tasks'[t] = tasks[t]
              /\ t \in DOMAIN execution_graphs =>
                    execution_graphs'[t] = execution_graphs[t]
      ]_vars

(* C19: a FAILED task keeps the results of the nodes that completed        *)
(* before the failure: task.results has an entry for each COMPLETED node.  *)
(* (The code assigns task.results only when the task completes.)           *)
C19_PartialResultsRetained ==
    \A t \in Accepted :
        tasks[t].status = "failed" =>
            \A n \in DOMAIN NodesOf(t) :
                NodesOf(t)[n].status = "completed" =>
                    /\ n \in DOMAIN tasks[t].results
                    /\ tasks[t].results[n] = NodesOf(t)[n].result

(* C20: when shutdown() returns no task is RUNNING and no node execution   *)
(* is in flight or waiting for the gate.  (running_tasks is never filled,  *)
(* so shutdown cancels and awaits nothing.)                                *)
C20_ShutdownLeavesNothingRunning ==
    [][shutdowns' # shutdowns =>
          /\ \A t \in DOMAIN tasks' : tasks'[t].status # "running"
          /\ InFlight' = {}
          /\ Waiting' = {}
      ]_vars

(* C21: whether a submission is accepted does not depend on the other     *)
(* tasks of the orchestrator: a graph whose capabilities are all           *)
(* registered is accepted whatever the earlier tasks are doing.  (The code *)
(* resolves a capability only while its agent is IDLE or ERROR, so a       *)
(* running node of another task makes the submission fail.)                *)
C21_AcceptanceIndependentOfOtherTasks ==
    \A id \in DOMAIN submit_result :
        (\A ty \in TypesNamed(submit_result[id].execution_graph) :
            AgentsOfType(ty) # {})
        => submit_result[id].ok

(* C22: get_task_status gives a status record for every task id of the    *)
(* store, in every state of the task, and None for any other id; the       *)
(* record shows the task's current status and has the results key exactly  *)
(* when the task is COMPLETED, and then the results are the task's.        *)
C22_StatusQuery ==
    \A id \in TaskIds \cup {NoTask} :
        LET r == get_task_status(id)
        IN  IF id \in DOMAIN tasks
            THEN /\ {"task_id", "status", "error_message", "retry_count"}
                        \subseteq DOMAIN r
                 /\ r.task_id = id
                 /\ r.status = tasks[id].status
                 /\ ("execution_graph" \in DOMAIN r) <=>
                        id \in DOMAIN execution_graphs
                 /\ ("results" \in DOMAIN r) <=> tasks[id].status = "completed"
                 /\ "results" \in DOMAIN r => r.results = tasks[id].results
            ELSE DOMAIN r = {}

\* a FAILED task with a COMPLETED node next to a task that was rejected, and
\* an id that is unknown
C22_Witness ==
    \E t, u \in DOMAIN tasks :
        /\ tasks[t].status = "failed"
        /\ "execution_graph" \in DOMAIN get_task_status(t)
        /\ get_task_status(t).execution_graph.completed_nodes = 1
        /\ get_task_status(t).execution_graph.failed_nodes = 1
        /\ "results" \notin DOMAIN get_task_status(t)
        /\ u \notin DOMAIN execution_graphs
        /\ get_task_status(u).status = "pending"
        /\ DOMAIN get_task_status(NoTask) = {}

(* C25: after fail_task(t, err) the agent has no current task and is       *)
(* ERROR, also when it no longer holds t: after every node execution that  *)
(* ends by an exception or a timeout, the node's agent is in that state.   *)
(* (fail_task does nothing unless current_task is still t.)                *)
C25_FailTaskAlwaysSetsError ==
    [][\A t \in Accepted : \A n \in DOMAIN NodesOf(t) :
          (execs[t][n].pc = "running" /\ execs'[t][n].pc = "done_err") =>
              /\ agents'[NodesOf(t)[n].agent_id].current_task = NoTask
              /\ agents'[NodesOf(t)[n].agent_id].status = "error"
      ]_vars

(* C30: in every compiled graph the edges are one (dependency, node) pair  *)
(* per declared dependency, no pair occurs twice and both ends of every    *)
(* edge are nodes of the graph.  (The code adds an edge for a dependency   *)
(* name that is no node.)                                                  *)
C30_EdgesWellFormed ==
    \A t \in DOMAIN execution_graphs :
        LET g == execution_graphs[t]
        IN  /\ Range(g.edges) = UNION {{<<g.nodes[n].dependencies[i], n>> :
                                          i \in 1..Len(g.nodes[n].dependencies)} :
                                      n \in DOMAIN g.nodes}
            /\ Len(g.edges) = SumOver([n \in DOMAIN g.nodes |->
                                          Len(g.nodes[n].dependencies)],
                                      DOMAIN g.nodes)
            /\ \A i, j \in 1..Len(g.edges) : g.edges[i] = g.edges[j] => i = j
            /\ \A i \in 1..Len(g.edges) :
                  /\ g.edges[i][1] \in DOMAIN g.nodes
                  /\ g.edges[i][2] \in DOMAIN g.nodes

(* C23: a node execution that times out leaves the node FAILED with an    *)
(* error that identifies a timeout, and the failure reaches the task (it   *)
(* is counted as a retry or fails the task).  (The code records            *)
(* str(TimeoutError()), the empty string.)                                 *)
C23_TimeoutErrorRecorded ==
    [][\A t \in Accepted : \A n \in DOMAIN NodesOf(t) :
          /\ (timeouts' # timeouts /\ execs[t][n].pc = "running"
                 /\ execs'[t][n].pc = "done_err")
             => IdentifiesTimeout(execs'[t][n].error)
          /\ (execs[t][n].pc = "done_err" /\ execs'[t][n].pc # "done_err")
             => /\ NodesOf(t)'[n].status = "failed"
                /\ NodesOf(t)'[n].error = execs[t][n].error
                /\ \/ tasks'[t].retry_count > tasks[t].retry_count
                   \/ tasks'[t].status = "failed"
      ]_vars

C28_DependencyResultsPassed ==
    \A tn \in Invoked :
        LET node == NodesOf(tn[1])[tn[2]]
            deps == task_data(tn[1], tn[2]).dependencies
        IN  \A d \in Range(node.dependencies) :
                /\ d \in DOMAIN deps
                /\ deps[d] = ResultOf(d)
                /\ deps[d] = NodesOf(tn[1])[d].result

\* B of the chain is in its collaborator with A's result under "A"
C28_Witness ==
    \E tn \in Invoked :
        /\ tn[2] = "B"
        /\ NodesOf(tn[1])["B"].dependencies = <<"A">>
        /\ task_data(tn[1], "B").dependencies = [m \in {"A"} |-> "resA"]

(* C29: the dependencies a node execution is given when it starts hold no  *)
(* result of a node dispatched in the same layer pass.  (The mapping is    *)
(* the scheduler's own dict: a sibling that finished and was awaited       *)
(* before this node got its gate slot is already in it.)                   *)
C29_NoSiblingResultVisible ==
    [][\A t \in Accepted : \A n \in DOMAIN NodesOf(t) :
          (execs[t][n].pc = "waiting" /\ execs'[t][n].pc = "running") =>
              \A m \in DOMAIN task_data(t, n)'.dependencies :
                  m \notin Range(sched[t].execution_tasks)
      ]_vars

(* C26: a task dispatches a layer only when no node execution of an       *)
(* earlier layer pass of that task is outstanding, so the executions of a  *)
(* task that wait or run at one time all belong to one layer pass, the     *)
(* one the scheduler is awaiting.                                          *)
C26_LayerBarrier ==
    [][\A t \in Accepted :
          /\ Dispatched(t) # {} =>
                \A m \in DOMAIN NodesOf(t) :
                    execs[t][m].pc \notin {"waiting", "running"}
          /\ \A n \in DOMAIN NodesOf(t) :
                execs'[t][n].pc # "none" =>
                    n \in Range(sched'[t].execution_tasks)
      ]_vars

\* the second pass of a layer of two is in flight after both nodes failed
\* in the first
C26_Witness ==
    \E t \in Accepted :
        /\ tasks[t].retry_count = 2
        /\ sched[t].execution_tasks = <<"A", "B">>
        /\ execs[t]["A"].pc = "running" /\ execs[t]["B"].pc = "running"
        /\ observed[t].invocations["A"] = 2
        /\ observed[t].invocations["B"] = 2

(* C27: a dispatch creates the executions of all the nodes that are ready, *)
(* in one step and before the scheduler awaits any of them, so that they   *)
(* can all hold a gate slot at once.                                       *)
C27_WholeLayerDispatched ==
    [][\A t \in Accepted :
          Dispatched(t) # {} =>
              /\ Dispatched(t) =
                    Range(ReadyNodes(execution_graphs'[t],
                                     sched'[t].completed_nodes))
              /\ Range(sched'[t].execution_tasks) = Dispatched(t)
              /\ sched'[t].idx = 1
              /\ sched'[t].pc = "await"
      ]_vars

\* the two nodes of a layer are in their collaborators at once, in their
\* first execution, none of them awaited to its end yet
C27_Witness ==
    \E t \in Accepted :
        /\ Len(sched[t].execution_tasks) = MaxConcurrent
        /\ sched[t].idx = 1
        /\ \A n \in Range(sched[t].execution_tasks) :
              <<t, n>> \in InFlight /\ observed[t].invocations[n] = 1
        /\ tasks[t].retry_count = 0
        /\ semaphore = 0

KeysOf(raw) == {raw[i].name : i \in 1..Len(raw)}

(* C32: every key of the raw mapping becomes a node of the compiled graph, *)
(* whatever the key is: the node set of an accepted task is the key set of *)
(* the graph it was submitted with.  (The parse loop skips the key         *)
(* "dependencies": no node is made for it, and a node that depends on it   *)
(* is never ready.)                                                        *)
C32_EveryKeyIsANode ==
    \A id \in Accepted :
        DOMAIN NodesOf(id) = KeysOf(submit_result[id].execution_graph)

(* C33: whenever a task is COMPLETED, every node of its graph is COMPLETED *)
(* and task.results has exactly one entry per node.  (The code completes   *)
(* a task whose remaining nodes can never be ready: they stay PENDING and  *)
(* have no result.)                                                        *)
C33_CompletedMeansAllNodesCompleted ==
    \A t \in Accepted :
        tasks[t].status = "completed" =>
            /\ \A n \in DOMAIN NodesOf(t) : NodesOf(t)[n].status = "completed"
            /\ DOMAIN tasks[t].results = DOMAIN NodesOf(t)

(* C35: when a task is COMPLETED or FAILED none of its nodes is RUNNING    *)
(* and none of its node executions is in flight.  (The failure that ends   *)
(* the task leaves the other executions of the layer running.)             *)
C35_NothingRunningAfterTerminal ==
    \A t \in Accepted :
        tasks[t].status \in Terminal =>
            \A n \in DOMAIN NodesOf(t) :
                /\ NodesOf(t)[n].status # "running"
                /\ <<t, n>> \notin InFlight

(* C36: an agent on which a node execution is in flight is BUSY and its    *)
(* current_task is a task with an execution in flight on it.  (The first   *)
(* of two overlapping executions to end makes the agent IDLE or ERROR and  *)
(* clears current_task.)                                                   *)
C36_InFlightMeansBusy ==
    \A a \in AgentIds :
        InFlightOn(a) # {} =>
            /\ agents[a].status = "busy"
            /\ \E tn \in InFlightOn(a) : agents[a].current_task = tn[1]

(* C37: a submission rejected at compile time leaves no task record: every *)
(* record of the store has a compiled graph and an id that was returned.   *)
(* (execute_task stores the record before it parses the graph.)            *)
C37_RejectedLeavesNoRecord ==
    \A id \in DOMAIN tasks :
        /\ id \in DOMAIN execution_graphs
        /\ submit_result[id].ok

(* C38: a COMPLETED node has no error recorded and a FAILED node has no    *)
(* result recorded.  (The error of a failed execution stays on the node    *)
(* when a later execution of it completes.)                                *)
C38_CompletedNoErrorFailedNoResult ==
    \A t \in Accepted : \A n \in DOMAIN NodesOf(t) :
        /\ NodesOf(t)[n].status = "completed" => NodesOf(t)[n].error = NoValue
        /\ NodesOf(t)[n].status = "failed" => NodesOf(t)[n].result = NoValue

(* C34: retry_count never exceeds max_retries and counts the node         *)
(* failures of the whole task, whichever nodes they are of; a node failure *)
(* makes the task FAILED only when it is the one that meets retry_count =  *)
(* max_retries, the fourth of the task, and each earlier one leaves the    *)
(* task RUNNING with retry_count one higher.                               *)
C34_RetryCountTaskWide ==
    [][\A t \in Accepted :
          LET f == observed[t].failures
              g == observed'[t].failures
              fails == tasks'[t].status = "failed" /\ tasks[t].status # "failed"
          IN  /\ tasks'[t].max_retries = MaxRetries
              /\ tasks'[t].retry_count <= tasks'[t].max_retries
              /\ tasks'[t].retry_count = (IF g <= MaxRetries THEN g ELSE MaxRetries)
              /\ (fails /\ tasks'[t].error_message # CircularMsg) =>
                    /\ g > f
                    /\ g = MaxRetries + 1
                    /\ tasks'[t].retry_count = MaxRetries
              /\ (g > f /\ g <= MaxRetries) =>
                    /\ tasks'[t].status = "running"
                    /\ tasks'[t].retry_count = tasks[t].retry_count + (g - f)
      ]_vars

\* a task FAILED by its fourth node failure, two failures of each of two
\* nodes
C34_Witness ==
    \E t \in Accepted :
        /\ tasks[t].status = "failed"
        /\ tasks[t].retry_count = MaxRetries
        /\ observed[t].failures = MaxRetries + 1
        /\ observed[t].invocations["A"] = 2
        /\ observed[t].invocations["B"] = 2
        /\ NodesOf(t)["A"].status = "failed"
        /\ NodesOf(t)["B"].status = "failed"

====
